---- MODULE Spec2Model ----
(***************************************************************************)
(* BasalGuard agent firewall: the intent router (validate_intent), the     *)
(* file, command and network guards, and the URL validator.                 *)
(*                                                                         *)
(* Text is modelled as a sequence of one-character strings, so that the     *)
(* character-level work of the code (case folding, metacharacter search,    *)
(* filename sanitisation) is computed and not assumed.  A filesystem path   *)
(* is [abs, parts]: whether it starts at "/", and its components.  A Python  *)
(* dict result is a record whose DOMAIN is the dict's key set; a call that   *)
(* lets an exception escape leaves the record [raised |-> <class>].          *)
(***************************************************************************)
EXTENDS Integers, Sequences, FiniteSets, TLC

VARIABLES
    workspace_root,     \* BasalGuardCore.workspace_root (absolute, resolved)
    command_allowlist,  \* BasalGuardCore.command_allowlist
    files,              \* the filesystem: absolute path -> [content, size]
    dirs,               \* the filesystem: the directories
    call,               \* the call being answered: operation and arguments
    result,             \* what the call gave back to its caller
    trace,              \* the primitives the call invoked, in order
    touched,            \* absolute paths whose content the call wrote or returned
    nwrites,            \* number of writes that changed the filesystem
    invoked,            \* the process runs and HTTP requests the call made, with
                        \* their arguments
    log,                \* the log records the call emitted
    pc                  \* the caller: "idle" between calls, "returned" holding a
                        \* result, "read_back" holding the read of what it wrote,
                        \* "paged_rest" holding the second page of a file

vars == <<workspace_root, command_allowlist, files, dirs, call, result, trace, touched,
          nwrites, invoked, log, pc>>

(* ---------------------------------------------------------------------- *)
(* Bounds of the model                                                      *)
(* ---------------------------------------------------------------------- *)
MaxPathLen == 2
MaxArgs == 2
MaxRecords == 2
MaxWrites == 1
MaxOffset == 4

(* ---------------------------------------------------------------------- *)
(* Program constants                                                        *)
(* ---------------------------------------------------------------------- *)
\* Mutant: the limit itself is already too large
MAX_READ_SIZE_exclusive == 1048576 - 1

_MAX_READ_SIZE_BYTES == 1048576

_VALID_ACTIONS == {"write_file", "read_file", "execute_command", "web_request"}

DEFAULT_COMMAND_ALLOWLIST ==
    { <<"g","i","t">>, <<"p","y","t","h","o","n">>, <<"p","y","t","h","o","n","3">>,
      <<"p","i","p">>, <<"p","i","p","3">>, <<"l","s">>, <<"c","a","t">>,
      <<"e","c","h","o">>, <<"m","k","d","i","r">> }

(* ---------------------------------------------------------------------- *)
(* Exceptions: the class hierarchy the except clauses match against         *)
(* ---------------------------------------------------------------------- *)
ExcParent ==
    [c \in {"NetworkSecurityError", "SecurityError", "ValueError", "OSError",
            "TypeError", "TimeoutExpired", "TimeoutError", "TimeoutException",
            "HTTPError", "FileNotFoundError", "UnicodeDecodeError",
            "UnicodeEncodeError", "Exception"} |->
        CASE c = "NetworkSecurityError" -> "SecurityError"
          [] c = "TimeoutException"     -> "HTTPError"
          [] c = "TimeoutError"         -> "OSError"
          [] c = "FileNotFoundError"    -> "OSError"
          [] c = "UnicodeDecodeError"   -> "ValueError"
          [] c = "UnicodeEncodeError"   -> "ValueError"
          [] OTHER                      -> "Exception"]

RECURSIVE IsInstance(_, _)
IsInstance(cls, handler) ==
    IF cls = handler THEN TRUE
    ELSE IF cls = "Exception" THEN FALSE
    ELSE IsInstance(ExcParent[cls], handler)

(* ---------------------------------------------------------------------- *)
(* Paths                                                                    *)
(* ---------------------------------------------------------------------- *)
DotDot == <<".", ".">>
EncodedDotDot == <<"%", "2", "e", "%", "2", "e">>
Tilde == <<"~">>

IsPrefix(base, p) == Len(base) <= Len(p) /\ SubSeq(p, 1, Len(base)) = base

\* pathlib: the final component ("" when there is none)
PathName(p) == IF p.parts = <<>> THEN <<>> ELSE p.parts[Len(p.parts)]

\* pathlib: the path without its final component
PathParent(p) ==
    [abs |-> p.abs,
     parts |-> IF p.parts = <<>> THEN <<>> ELSE SubSeq(p.parts, 1, Len(p.parts) - 1)]

\* str(file_path.parent) != "."
ParentIsDot(p) == ~p.abs /\ PathParent(p).parts = <<>>

\* Path.resolve() on a filesystem without symlinks: ".." pops a component
RECURSIVE resolve(_, _)
resolve(stack, parts) ==
    IF parts = <<>> THEN stack
    ELSE IF Head(parts) = DotDot
         THEN resolve(IF stack = <<>> THEN <<>> ELSE SubSeq(stack, 1, Len(stack) - 1),
                      Tail(parts))
         ELSE resolve(Append(stack, Head(parts)), Tail(parts))

(* ---------------------------------------------------------------------- *)
(* The security primitives (taipanstack), by their contract                 *)
(* ---------------------------------------------------------------------- *)
UnsafeFilenameChars == {"<", ">", ":", "|", "?", "*"}

\* sanitize-filename: replaces the characters unsafe for a filesystem entry;
\* never raises for non-empty input.  For the empty name the contract is
\* silent: either outcome is possible.
sanitize_filename(name) ==
    IF name = <<>>
    THEN { [exc |-> "none", name |-> <<"u">>], [exc |-> "ValueError", name |-> <<>>] }
    ELSE { [exc |-> "none",
            name |-> [i \in 1..Len(name) |->
                        IF name[i] \in UnsafeFilenameChars THEN "_" ELSE name[i]]] }

\* guard-path-traversal: resolves path relative to base_dir; a resolution
\* that leaves base_dir (by "..", a percent-encoded traversal sequence or a
\* leading tilde) is a SecurityError carrying the offending value.
guard_path_traversal(path, base_dir) ==
    LET target == IF path.abs THEN resolve(<<>>, path.parts)
                  ELSE resolve(base_dir, path.parts)
        violation == [exc |-> "SecurityError", guard |-> "path_traversal",
                      value |-> path, resolved |-> <<>>]
    IN IF path.parts # <<>> /\ Head(path.parts) # <<>> /\ Head(Head(path.parts)) = "~"
       THEN violation
       ELSE IF \E i \in 1..Len(path.parts) : path.parts[i] = EncodedDotDot
       THEN violation
       ELSE IF ~IsPrefix(base_dir, target)
       THEN violation
       ELSE [exc |-> "none", guard |-> "path_traversal", value |-> path,
             resolved |-> target]

(* ---------------------------------------------------------------------- *)
(* Filesystem primitives                                                    *)
(* ---------------------------------------------------------------------- *)
\* Mutant: a character counts for one, whatever its encoding
CharWidth(ch) == 1

\* "E" stands for a two-byte character such as e-acute
Utf8Width(ch) == IF ch = "E" THEN 2 ELSE 1

RECURSIVE Utf8Len(_)
Utf8Len(s) == IF s = <<>> THEN 0 ELSE Utf8Width(Head(s)) + Utf8Len(Tail(s))

Prefixes(p) == { SubSeq(p, 1, n) : n \in 0..Len(p) }

\* Path.mkdir(parents=True, exist_ok=True): fails when a component is a file
mkdir_parents(fs_files, fs_dirs, d) ==
    IF \E q \in Prefixes(d) : q \in DOMAIN fs_files
    THEN [exc |-> "OSError", dirs |-> fs_dirs]
    ELSE [exc |-> "none", dirs |-> fs_dirs \cup Prefixes(d)]

\* Path.write_text(content, encoding="utf-8"): fails on a directory or when
\* the parent is missing; otherwise opens the file for writing, which creates
\* or empties it, and then encodes the text, which fails on a character that
\* UTF-8 cannot encode ("SUR" stands for a lone surrogate)
write_text(fs_files, fs_dirs, p, content) ==
    LET holding(c) == [q \in DOMAIN fs_files \cup {p} |->
                          IF q = p THEN [content |-> c, size |-> Utf8Len(c)]
                          ELSE fs_files[q]]
    IN IF p \in fs_dirs \/ p = <<>> \/ SubSeq(p, 1, Len(p) - 1) \notin fs_dirs
       THEN [exc |-> "OSError", files |-> fs_files]
       ELSE IF \E i \in 1..Len(content) : content[i] = "SUR"
       THEN [exc |-> "UnicodeEncodeError", files |-> holding(<<>>)]
       ELSE [exc |-> "none", files |-> holding(content)]

(* ---------------------------------------------------------------------- *)
(* File guard                                                               *)
(* ---------------------------------------------------------------------- *)
\* What a guard hands back: the dict returned (or the exception raised), the
\* filesystem it leaves, the primitives it invoked and the paths it touched.
Outcome(res, fs_files, fs_dirs, tr, tch) ==
    [result |-> res, files |-> fs_files, dirs |-> fs_dirs, trace |-> tr, touched |-> tch]

\* An outcome of a call that ran a process or sent a request with the
\* arguments r
WithInvoked(out, r) == out @@ [invoked |-> r]

\* An outcome of a call that emitted the log records recs
WithLog(out, recs) == out @@ [log |-> recs]

\* logger.info on the success of an action
log_info(action) == << [level |-> "info", action |-> action, outcome |-> "success"] >>

\* logger.warning("BLOCKED <action> - %s (value=%s)", exc, exc.value)
log_blocked_value(action, value) ==
    << [level |-> "warning", action |-> action, outcome |-> "BLOCKED", value |-> value] >>

\* logger.warning("BLOCKED <action> - %s", exc)
log_blocked(action) ==
    << [level |-> "warning", action |-> action, outcome |-> "BLOCKED"] >>

\* What an outcome holds of the two
Invoked(out) == IF "invoked" \in DOMAIN out THEN out.invoked ELSE <<>>

Logged(out) == IF "log" \in DOMAIN out THEN out.log ELSE <<>>

\* safe_write_file, step 1: parent / safe_name, or safe_name alone
sanitised_path(path, safe_name) ==
    IF ParentIsDot(path) THEN [abs |-> FALSE, parts |-> <<safe_name>>]
    ELSE [abs |-> path.abs, parts |-> Append(PathParent(path).parts, safe_name)]

\* safe_write_file, steps 2 to 4 and the except clauses, once
\* guard_path_traversal has answered g
write_guarded(path, content, g, fs_files, fs_dirs) ==
    LET blocked(reason, violator, tr, ds) ==
            WithLog(Outcome([status |-> "blocked", action |-> "write_file",
                             reason |-> reason, violator |-> violator],
                            fs_files, ds, tr, {}),
                    IF g.exc # "none" THEN log_blocked_value("write_file", g.value)
                    ELSE log_blocked("write_file"))
        md == mkdir_parents(fs_files, fs_dirs, SubSeq(g.resolved, 1, Len(g.resolved) - 1))
        wr == write_text(fs_files, md.dirs, g.resolved, content)
    IN IF g.exc # "none"
       THEN blocked([msg |-> "path_traversal", guard |-> g.guard], g.value,
                    <<"sanitize_filename", "guard_path_traversal">>, fs_dirs)
       ELSE IF md.exc # "none"
       THEN blocked([msg |-> "OSError"], path,
                    <<"sanitize_filename", "guard_path_traversal", "mkdir">>, fs_dirs)
       ELSE IF wr.exc # "none"
       THEN [blocked([msg |-> wr.exc], path,
                     <<"sanitize_filename", "guard_path_traversal", "mkdir", "write_text">>,
                     md.dirs)
                EXCEPT !.files = wr.files]
       ELSE WithLog(Outcome([status |-> "success", action |-> "write_file",
                             path |-> g.resolved, bytes_written |-> Utf8Len(content)],
                            wr.files, md.dirs,
                            <<"sanitize_filename", "guard_path_traversal", "mkdir",
                              "write_text">>,
                            {g.resolved}),
                    log_info("write_file"))

\* Mutant: the sanitised path is resolved but its confinement is not checked
write_unconfined(path, content, san, root, fs_files, fs_dirs) ==
    IF san.exc # "none"
    THEN WithLog(Outcome([status |-> "blocked", action |-> "write_file",
                          reason |-> [msg |-> "sanitize_filename"], violator |-> path],
                         fs_files, fs_dirs, <<"sanitize_filename">>, {}),
                 log_blocked("write_file"))
    ELSE LET sp == sanitised_path(path, san.name)
         IN write_guarded(path, content,
                          [exc |-> "none", guard |-> "path_traversal", value |-> sp,
                           resolved |-> resolve(IF sp.abs THEN <<>> ELSE root, sp.parts)],
                          fs_files, fs_dirs)

\* safe_write_file, once sanitize_filename(file_path.name) has answered san
write_sanitised(path, content, san, root, fs_files, fs_dirs) ==
    IF san.exc # "none"
    THEN WithLog(Outcome([status |-> "blocked", action |-> "write_file",
                          reason |-> [msg |-> "sanitize_filename"], violator |-> path],
                         fs_files, fs_dirs, <<"sanitize_filename">>, {}),
                 log_blocked("write_file"))
    ELSE write_guarded(path, content,
                       guard_path_traversal(sanitised_path(path, san.name), root),
                       fs_files, fs_dirs)

\* safe_write_file: every outcome the call can have
safe_write_file(path, content, root, fs_files, fs_dirs) ==
    { write_sanitised(path, content, san, root, fs_files, fs_dirs) :
        san \in sanitize_filename(PathName(path)) }

\* safe_read_file
safe_read_file(path, root, fs_files, fs_dirs) ==
    LET g == guard_path_traversal(path, root)
        resolved == g.resolved
        answer(res, tch) == Outcome(res, fs_files, fs_dirs, <<"guard_path_traversal">>, tch)
    IN IF g.exc # "none"
       THEN WithLog(answer([status |-> "blocked", action |-> "read_file",
                            reason |-> [msg |-> "path_traversal", guard |-> g.guard],
                            violator |-> g.value], {}),
                    log_blocked_value("read_file", g.value))
       ELSE IF resolved \notin DOMAIN fs_files /\ resolved \notin fs_dirs
       THEN answer([status |-> "error", action |-> "read_file",
                    reason |-> [msg |-> "File not found"]], {})
       ELSE IF resolved \notin DOMAIN fs_files
       THEN answer([status |-> "error", action |-> "read_file",
                    reason |-> [msg |-> "Path is not a file"]], {})
       ELSE IF fs_files[resolved].size > _MAX_READ_SIZE_BYTES
       THEN answer([status |-> "blocked", action |-> "read_file",
                    reason |-> [msg |-> "File too large", size |-> fs_files[resolved].size,
                                max |-> _MAX_READ_SIZE_BYTES],
                    violator |-> path], {})
       ELSE WithLog(answer([status |-> "success", action |-> "read_file",
                            path |-> resolved,
                            content |-> fs_files[resolved].content,
                            size_bytes |-> fs_files[resolved].size], {resolved}),
                    log_info("read_file"))

(* ---------------------------------------------------------------------- *)
(* Paged read (tools/advanced_file_ops.py)                                  *)
(* ---------------------------------------------------------------------- *)
\* A byte is written as a string: an ASCII character is its own byte, the
\* two-byte character "E" is the lead byte "E:1" followed by the
\* continuation byte "E:2".  "R" stands for the replacement marker U+FFFD.
RECURSIVE Utf8Encode(_)
Utf8Encode(s) ==
    IF s = <<>> THEN <<>>
    ELSE (IF Head(s) = "E" THEN <<"E:1", "E:2">> ELSE <<Head(s)>>) \o Utf8Encode(Tail(s))

\* The text of a byte string, each byte that is not part of a well-formed
\* sequence giving one replacement marker
RECURSIVE Utf8Text(_)
Utf8Text(b) ==
    IF b = <<>> THEN <<>>
    ELSE IF Len(b) >= 2 /\ b[1] = "E:1" /\ b[2] = "E:2"
         THEN <<"E">> \o Utf8Text(SubSeq(b, 3, Len(b)))
         ELSE IF Head(b) \in {"E:1", "E:2"}
              THEN <<"R">> \o Utf8Text(Tail(b))
              ELSE <<Head(b)>> \o Utf8Text(Tail(b))

\* Mutant: the file opened in text mode, offset and limit counting
\* characters
ReadChars(bytes, offset, limit) ==
    LET text == Utf8Text(bytes)
    IN IF offset >= Len(text) THEN <<>>
       ELSE Utf8Encode(SubSeq(text, offset + 1,
                              IF offset + limit < Len(text) THEN offset + limit
                              ELSE Len(text)))

\* f.seek(offset); f.read(limit) on a file opened "rb"
ReadBytes(bytes, offset, limit) ==
    IF offset >= Len(bytes) THEN <<>>
    ELSE SubSeq(bytes, offset + 1,
                IF offset + limit < Len(bytes) THEN offset + limit ELSE Len(bytes))

\* Mutant: bytes.decode("utf-8") with the default errors="strict"
decode_strict(b) ==
    IF "R" \in { Utf8Text(b)[i] : i \in 1..Len(Utf8Text(b)) }
    THEN [exc |-> "UnicodeDecodeError", text |-> <<>>]
    ELSE [exc |-> "none", text |-> Utf8Text(b)]

\* bytes.decode("utf-8", errors="replace")
decode_replace(b) == [exc |-> "none", text |-> Utf8Text(b)]

\* read_file_paged(path, offset, limit, base_dir): the text returned, or the
\* exception raised
read_file_paged(path, offset, limit, base_dir, fs_files, fs_dirs) ==
    LET g == guard_path_traversal(path, base_dir)
        off == IF offset < 0 THEN 0 ELSE offset
        lim == IF limit < 0 THEN 0 ELSE limit
        content_bytes == ReadBytes(Utf8Encode(fs_files[g.resolved].content), off, lim)
        decoded == decode_replace(content_bytes)
        answer(res, tr, tch) == Outcome(res, fs_files, fs_dirs, tr, tch)
    IN IF g.exc # "none"
       THEN answer([raised |-> g.exc, guard |-> g.guard, value |-> g.value],
                   <<"guard_path_traversal">>, {})
       ELSE IF g.resolved \notin DOMAIN fs_files
       THEN answer([raised |-> "FileNotFoundError"], <<"guard_path_traversal">>, {})
       ELSE IF decoded.exc # "none"
       THEN answer([raised |-> decoded.exc], <<"guard_path_traversal", "read">>, {})
       ELSE answer([returned |-> decoded.text], <<"guard_path_traversal", "read">>,
                   {g.resolved})

(* ---------------------------------------------------------------------- *)
(* Command guard                                                            *)
(* ---------------------------------------------------------------------- *)
\* A list element is [str, v]: whether it is a Python str, and its text.
\* "BQ" stands for the backquote character, which the lexer does not accept.
ShellMetachars == {";", "|", "&", "$", "BQ"}

HasMetachar(word) == \E i \in 1..Len(word) : word[i] \in ShellMetachars

\* guard-command-injection: rejects an empty list, any argument containing a
\* shell metacharacter, and a base command outside allowed_commands, with a
\* SecurityError carrying the offending value.  The contract fixes neither
\* which violation is reported when both are present nor what happens to an
\* element that is not a string: each possible outcome is in the set.
guard_command_injection(command_parts, allowed_commands) ==
    LET violation(guard, value) == [exc |-> "SecurityError", guard |-> guard, value |-> value]
        injected == { i \in 1..Len(command_parts) : HasMetachar(command_parts[i].v) }
        first == CHOOSE i \in injected : \A j \in injected : i <= j
    IN IF command_parts = <<>>
       THEN { violation("command_injection", <<>>) }
       ELSE IF \E i \in 1..Len(command_parts) : ~command_parts[i].str
       THEN { [exc |-> "TypeError", guard |-> "command_injection", value |-> <<>>],
              violation("command_injection", <<>>) }
       ELSE (IF injected # {}
             THEN { violation("command_injection", command_parts[first].v) }
             ELSE {})
            \cup
            (IF command_parts[1].v \notin allowed_commands
             THEN { violation("command_allowlist", command_parts[1].v) }
             ELSE {})
            \cup
            (IF injected = {} /\ command_parts[1].v \in allowed_commands
             THEN { [exc |-> "none", guard |-> "command_injection", value |-> <<>>] }
             ELSE {})

\* run-safe-command: executes without a shell; the process may end with any
\* return code, fail to launch, or outlive the timeout.  The contract does
\* not say how an expired timeout is signalled: by subprocess.TimeoutExpired,
\* by the built-in TimeoutError, or by the result of the killed process.
run_safe_command(command_parts, cwd, allowed_commands, timeout) ==
    { [exc |-> "none", returncode |-> rc, shell |-> FALSE, cwd |-> cwd,
       argv |-> command_parts, allowed_commands |-> allowed_commands,
       timeout |-> timeout, timed_out |-> FALSE] : rc \in {0, 1} }
    \cup
    { [exc |-> "OSError", returncode |-> -1, shell |-> FALSE, cwd |-> cwd,
       argv |-> command_parts, allowed_commands |-> allowed_commands,
       timeout |-> timeout, timed_out |-> FALSE] }
    \cup
    { [exc |-> e, returncode |-> -9, shell |-> FALSE, cwd |-> cwd,
       argv |-> command_parts, allowed_commands |-> allowed_commands,
       timeout |-> timeout, timed_out |-> TRUE] :
          e \in {"TimeoutExpired", "TimeoutError", "none"} }

\* What a call keeps of a process run: the arguments it was given
run_invoked(r) ==
    << [prim |-> "run_safe_command", argv |-> r.argv, shell |-> r.shell, cwd |-> r.cwd,
        allowed_commands |-> r.allowed_commands, timeout |-> r.timeout] >>

\* What the trace keeps of a run: the call, and whether the timeout expired
run_trace(r) ==
    <<"guard_command_injection", "run_safe_command">>
        \o (IF r.timed_out THEN <<"timeout">> ELSE <<>>)

\* Mutant: the command is run whatever the guard answered
execute_unguarded(command_parts, g, r, fs_files, fs_dirs) ==
    IF r.exc # "none"
    THEN WithInvoked(Outcome([raised |-> r.exc], fs_files, fs_dirs, run_trace(r), {}),
                     run_invoked(r))
    ELSE WithInvoked(Outcome([status |-> "success", action |-> "execute_command",
                              command |-> command_parts, returncode |-> r.returncode],
                             fs_files, fs_dirs, run_trace(r), {}),
                     run_invoked(r))

\* safe_execute_command, once the two primitives have answered g and r
execute_guarded(command_parts, g, r, fs_files, fs_dirs) ==
    LET base == IF command_parts # <<>> THEN command_parts[1].v ELSE <<>>
        handle(exc, value, tr) ==
            IF IsInstance(exc, "SecurityError")
            THEN WithLog(Outcome([status |-> "blocked", action |-> "execute_command",
                                  reason |-> [msg |-> "SecurityError"],
                                  violator |-> IF value # <<>> THEN value ELSE base],
                                 fs_files, fs_dirs, tr, {}),
                         log_blocked_value("execute_command", value))
            ELSE IF IsInstance(exc, "ValueError") \/ IsInstance(exc, "OSError")
            THEN WithLog(Outcome([status |-> "blocked", action |-> "execute_command",
                                  reason |-> [msg |-> exc], violator |-> base],
                                 fs_files, fs_dirs, tr, {}),
                         log_blocked("execute_command"))
            ELSE Outcome([raised |-> exc], fs_files, fs_dirs, tr, {})
    IN IF g.exc # "none"
       THEN handle(g.exc, g.value, <<"guard_command_injection">>)
       ELSE IF r.exc # "none"
       THEN WithInvoked(handle(r.exc, <<>>, run_trace(r)), run_invoked(r))
       ELSE WithLog(WithInvoked(Outcome([status |-> "success",
                                         action |-> "execute_command",
                                         command |-> command_parts,
                                         returncode |-> r.returncode],
                                        fs_files, fs_dirs, run_trace(r), {}),
                                run_invoked(r)),
                    log_info("execute_command"))

\* Mutant: the default allowlist is enforced instead of the configured one
safe_execute_command_default(command_parts, allowlist, root, fs_files, fs_dirs) ==
    { execute_guarded(command_parts, g, r, fs_files, fs_dirs) :
        g \in guard_command_injection(command_parts, DEFAULT_COMMAND_ALLOWLIST),
        r \in run_safe_command(command_parts, root, DEFAULT_COMMAND_ALLOWLIST, 60) }

\* Mutant: the process is run in the directory of the caller
run_in_caller_directory(command_parts, allowlist, root) ==
    run_safe_command(command_parts, <<>>, allowlist, 60)

\* The call of run_safe_command: the list as given, cwd=self.workspace_root,
\* allowed_commands=list(self.command_allowlist), timeout=60.0
run_in_workspace(command_parts, allowlist, root) ==
    run_safe_command(command_parts, root, allowlist, 60)

\* safe_execute_command: every outcome the call can have
safe_execute_command(command_parts, allowlist, root, fs_files, fs_dirs) ==
    { execute_guarded(command_parts, g, r, fs_files, fs_dirs) :
        g \in guard_command_injection(command_parts, allowlist),
        r \in run_in_workspace(command_parts, allowlist, root) }

(* ---------------------------------------------------------------------- *)
(* Text helpers: str.upper, str.lower, str.strip                            *)
(* ---------------------------------------------------------------------- *)
LowerLetters == <<"a","b","c","d","e","f","g","h","i","j","k","l","m",
                  "n","o","p","q","r","s","t","u","v","w","x","y","z">>
UpperLetters == <<"A","B","C","D","E","F","G","H","I","J","K","L","M",
                  "N","O","P","Q","R","S","T","U","V","W","X","Y","Z">>

\* "GS" stands for the capital sigma, "gs" for the small sigma and "fs" for
\* the final small sigma
UpperChar(c) ==
    IF \E i \in 1..26 : LowerLetters[i] = c
    THEN UpperLetters[CHOOSE i \in 1..26 : LowerLetters[i] = c]
    ELSE IF c \in {"gs", "fs"} THEN "GS" ELSE c

LowerChar(c) ==
    IF \E i \in 1..26 : UpperLetters[i] = c
    THEN LowerLetters[CHOOSE i \in 1..26 : UpperLetters[i] = c]
    ELSE c

str_upper(s) == [i \in 1..Len(s) |-> UpperChar(s[i])]
\* A character that has a case
IsCased(c) ==
    \/ \E i \in 1..26 : LowerLetters[i] = c \/ UpperLetters[i] = c
    \/ c \in {"GS", "gs", "fs"}

\* str.lower: a capital sigma that ends a word (a cased character before it,
\* none after it) becomes the final sigma
str_lower(s) ==
    [i \in 1..Len(s) |->
        IF s[i] = "GS"
        THEN IF /\ i > 1
                /\ IsCased(s[i - 1])
                /\ ~(i < Len(s) /\ IsCased(s[i + 1]))
             THEN "fs" ELSE "gs"
        ELSE LowerChar(s[i])]

RECURSIVE str_strip(_)
str_strip(s) ==
    IF s = <<>> THEN s
    ELSE IF Head(s) = " " THEN str_strip(Tail(s))
    ELSE IF s[Len(s)] = " " THEN str_strip(SubSeq(s, 1, Len(s) - 1))
    ELSE s

(* ---------------------------------------------------------------------- *)
(* Pattern search (tools/advanced_file_ops.py)                              *)
(* ---------------------------------------------------------------------- *)
\* "NL" stands for the line feed.  Iterating a file opened in text mode gives
\* its lines, each with its terminator, the last one possibly without.
RECURSIVE file_lines(_)
file_lines(text) ==
    IF text = <<>> THEN <<>>
    ELSE LET ends == { i \in 1..Len(text) : text[i] = "NL" }
             k == IF ends = {} THEN Len(text)
                  ELSE CHOOSE i \in ends : \A j \in ends : i <= j
         IN <<SubSeq(text, 1, k)>> \o file_lines(SubSeq(text, k + 1, Len(text)))

\* pattern in line
str_contains(pattern, line) ==
    \E i \in 0..(Len(line) - Len(pattern)) : SubSeq(line, i + 1, i + Len(pattern)) = pattern

\* line.rstrip("\n")
RECURSIVE rstrip_newline(_)
rstrip_newline(line) ==
    IF line # <<>> /\ line[Len(line)] = "NL"
    THEN rstrip_newline(SubSeq(line, 1, Len(line) - 1))
    ELSE line

\* search_in_file(path, pattern, case_sensitive, base_dir): the list
\* returned, or the exception raised
search_in_file(path, pattern, case_sensitive, base_dir, fs_files, fs_dirs) ==
    LET g == guard_path_traversal(path, base_dir)
        search_pattern == IF case_sensitive THEN pattern ELSE str_lower(pattern)
        text == decode_replace(Utf8Encode(fs_files[g.resolved].content)).text
        matching(line) ==
            str_contains(search_pattern, IF case_sensitive THEN line ELSE str_lower(line))
        lines == SelectSeq(file_lines(text), matching)
        matches == [i \in 1..Len(lines) |-> rstrip_newline(lines[i])]
        answer(res, tr, tch) == Outcome(res, fs_files, fs_dirs, tr, tch)
    IN IF g.exc # "none"
       THEN answer([raised |-> g.exc, guard |-> g.guard, value |-> g.value],
                   <<"guard_path_traversal">>, {})
       ELSE IF g.resolved \notin DOMAIN fs_files
       THEN answer([raised |-> "FileNotFoundError"], <<"guard_path_traversal">>, {})
       ELSE answer([returned |-> matches], <<"guard_path_traversal", "read">>,
                   {g.resolved})

(* ---------------------------------------------------------------------- *)
(* Network guard                                                            *)
(* ---------------------------------------------------------------------- *)
\* An address is [v, o]: IP version and its groups (4 octets, or 8 groups of
\* 16 bits); v = 0 is a text that ipaddress.ip_address() cannot parse.
\* A URL is [scheme, host, rest]: the text before ":", the host of the
\* "//" authority ([kind, addr, name], kind "none" when there is none),
\* and whether anything else follows.
NoAddr == [v |-> 0, o |-> <<>>]
NoHost == [kind |-> "none", addr |-> NoAddr, name |-> <<>>]

\* ipaddress: IPv4Address / IPv6Address .is_loopback
is_loopback(a) ==
    IF a.v = 4 THEN a.o[1] = 127
    ELSE a.o = <<0, 0, 0, 0, 0, 0, 0, 1>>

\* ipaddress: .is_reserved (240.0.0.0/4; the IETF-reserved IPv6 blocks)
is_reserved(a) ==
    IF a.v = 4 THEN a.o[1] >= 240
    ELSE \/ a.o[1] < 256                        \* ::/8
         \/ a.o[1] >= 256 /\ a.o[1] < 8192      \* 100::/8 ... 1000::/4
         \/ a.o[1] >= 16384 /\ a.o[1] < 64512   \* 4000::/3 ... f800::/6
         \/ a.o[1] >= 65024 /\ a.o[1] < 65152   \* fe00::/9

\* ipaddress: .is_private (the IANA special-purpose registries)
is_private(a) ==
    IF a.v = 4
    THEN \/ a.o[1] = 0
         \/ a.o[1] = 10
         \/ a.o[1] = 127
         \/ a.o[1] = 169 /\ a.o[2] = 254
         \/ a.o[1] = 172 /\ a.o[2] >= 16 /\ a.o[2] <= 31
         \/ a.o[1] = 192 /\ a.o[2] = 0 /\ a.o[3] = 0 /\ (a.o[4] < 8 \/ a.o[4] \in {170, 171})
         \/ a.o[1] = 192 /\ a.o[2] = 0 /\ a.o[3] = 2
         \/ a.o[1] = 192 /\ a.o[2] = 168
         \/ a.o[1] = 198 /\ a.o[2] \in {18, 19}
         \/ a.o[1] = 198 /\ a.o[2] = 51 /\ a.o[3] = 100
         \/ a.o[1] = 203 /\ a.o[2] = 0 /\ a.o[3] = 113
         \/ a.o[1] >= 240
    ELSE \/ a.o = <<0, 0, 0, 0, 0, 0, 0, 1>>
         \/ a.o = <<0, 0, 0, 0, 0, 0, 0, 0>>
         \/ SubSeq(a.o, 1, 6) = <<0, 0, 0, 0, 0, 65535>>    \* ::ffff:0:0/96
         \/ SubSeq(a.o, 1, 4) = <<256, 0, 0, 0>>            \* 100::/64
         \/ a.o[1] = 8193 /\ a.o[2] < 512                   \* 2001::/23
         \/ a.o[1] = 8193 /\ a.o[2] = 3512                  \* 2001:db8::/32
         \/ a.o[1] >= 64512 /\ a.o[1] < 65024               \* fc00::/7
         \/ a.o[1] >= 65152 /\ a.o[1] < 65216               \* fe80::/10

\* urllib.parse.urlparse: the scheme is lower-cased; .hostname is the host
\* of the authority, lower-cased, None when there is none
urlparse(url) ==
    [scheme |-> str_lower(url.scheme),
     hostname |-> [url.host EXCEPT !.name = str_lower(url.host.name)]]

\* What validate_url raises, and what it returns
UrlViolation(url, cause, value, tr) ==
    [exc |-> "SecurityError", guard |-> "network_guard", cause |-> cause,
     value |-> value, url |-> url, trace |-> tr]

UrlAccepted(url, tr) ==
    [exc |-> "none", guard |-> "network_guard", cause |-> "none",
     value |-> url, url |-> url, trace |-> tr]

IsBlockedAddr(a) == is_private(a) \/ is_reserved(a) \/ is_loopback(a)

\* Mutant: only the first record of the DNS answer is classified
validate_resolved_first(url, hostname, dns) ==
    LET tr == <<"urlparse", "ip_address", "getaddrinfo">>
    IN IF dns.exc # "none" THEN UrlViolation(url, "dns_error", hostname, tr)
       ELSE IF dns.infos = <<>> THEN UrlViolation(url, "dns_empty", hostname, tr)
       ELSE IF dns.infos[1].v # 0 /\ IsBlockedAddr(dns.infos[1])
       THEN UrlViolation(url, "dns_private", dns.infos[1], tr)
       ELSE UrlAccepted(url, tr)

\* validate_url, step 4: dns is what socket.getaddrinfo gives for the
\* hostname, [exc, infos], infos the sequence of sockaddr[0] of the records;
\* a record that ip_address() cannot parse is passed over
validate_resolved(url, hostname, dns) ==
    LET tr == <<"urlparse", "ip_address", "getaddrinfo">>
        private == { i \in 1..Len(dns.infos) :
                        dns.infos[i].v # 0 /\ IsBlockedAddr(dns.infos[i]) }
    IN IF dns.exc # "none" THEN UrlViolation(url, "dns_error", hostname, tr)
       ELSE IF dns.infos = <<>> THEN UrlViolation(url, "dns_empty", hostname, tr)
       ELSE IF private # {}
       THEN UrlViolation(url, "dns_private",
                         dns.infos[CHOOSE i \in private : \A j \in private : i <= j], tr)
       ELSE UrlAccepted(url, tr)

\* Mutant: ftp is among the allowed schemes
ALLOWED_SCHEMES_ftp == { <<"h","t","t","p">>, <<"h","t","t","p","s">>, <<"f","t","p">> }

_ALLOWED_SCHEMES == { <<"h","t","t","p">>, <<"h","t","t","p","s">> }

\* Mutant: a hostname of the allowlist is accepted without the address checks
validate_url_allowlist_exempts(url, allowed_domains, dns) ==
    LET parsed == urlparse(url)
        hostname == parsed.hostname
        normalised == { str_strip(str_lower(d)) : d \in allowed_domains.domains }
    IN IF parsed.scheme \notin _ALLOWED_SCHEMES
       THEN UrlViolation(url, "scheme", parsed.scheme, <<"urlparse">>)
       ELSE IF hostname.kind = "none"
       THEN UrlViolation(url, "hostname", url, <<"urlparse">>)
       ELSE IF allowed_domains.given /\ str_lower(hostname.name) \notin normalised
       THEN UrlViolation(url, "allowlist", hostname, <<"urlparse">>)
       ELSE IF allowed_domains.given
       THEN UrlAccepted(url, <<"urlparse">>)
       ELSE IF hostname.kind = "ip"
       THEN IF IsBlockedAddr(hostname.addr)
            THEN UrlViolation(url, "ip", hostname.addr, <<"urlparse", "ip_address">>)
            ELSE UrlAccepted(url, <<"urlparse", "ip_address">>)
       ELSE validate_resolved(url, hostname, dns)

\* validate_url, steps 1 to 3
validate_url(url, allowed_domains, dns) ==
    LET parsed == urlparse(url)
        hostname == parsed.hostname
        normalised == { str_strip(str_lower(d)) : d \in allowed_domains.domains }
    IN IF parsed.scheme \notin _ALLOWED_SCHEMES
       THEN UrlViolation(url, "scheme", parsed.scheme, <<"urlparse">>)
       ELSE IF hostname.kind = "none"
       THEN UrlViolation(url, "hostname", url, <<"urlparse">>)
       ELSE IF allowed_domains.given /\ str_lower(hostname.name) \notin normalised
       THEN UrlViolation(url, "allowlist", hostname, <<"urlparse">>)
       ELSE IF hostname.kind = "ip"
       THEN IF IsBlockedAddr(hostname.addr)
            THEN UrlViolation(url, "ip", hostname.addr, <<"urlparse", "ip_address">>)
            ELSE UrlAccepted(url, <<"urlparse", "ip_address">>)
       ELSE validate_resolved(url, hostname, dns)

_MAX_RESPONSE_BODY == 50 * 1024

\* httpx.Client(follow_redirects=True, max_redirects=5)
max_redirects == 5

\* client.request(method, validated): the requests the client sends, the one
\* for the URL it was given and one for each redirect target the servers
\* answer with, as far as it follows them
client_request(url, http) ==
    LET followed == SubSeq(http.redirects, 1,
                           IF Len(http.redirects) < max_redirects
                           THEN Len(http.redirects) ELSE max_redirects)
    IN << [prim |-> "http_request", url |-> url] >>
          \o [i \in 1..Len(followed) |-> [prim |-> "http_request", url |-> followed[i]]]

\* safe_web_request after the method check: URL validation, the request,
\* the response; m is the upper-cased method
web_validated(url, m, dns, http, fs_files, fs_dirs) ==
    LET vu == validate_url(url, [given |-> FALSE, domains |-> {}], dns)
        answer(res, tr) == Outcome(res, fs_files, fs_dirs, tr, {})
        sent(res, tr) == WithInvoked(answer(res, tr), client_request(vu.url, http))
    IN IF vu.exc # "none"
       THEN IF IsInstance(vu.exc, "NetworkSecurityError")
            THEN WithLog(answer([status |-> "blocked", action |-> "web_request",
                                 reason |-> [msg |-> vu.cause], violator |-> url],
                                <<"validate_url">> \o vu.trace),
                         log_blocked("web_request"))
            ELSE answer([raised |-> vu.exc], <<"validate_url">> \o vu.trace)
       ELSE IF http.exc # "none" /\ IsInstance(http.exc, "TimeoutException")
       THEN sent([status |-> "error", action |-> "web_request",
                  reason |-> [msg |-> "Request timed out"], violator |-> url],
                 <<"validate_url">> \o vu.trace \o <<"http_request", "timeout">>)
       ELSE IF http.exc # "none" /\ IsInstance(http.exc, "HTTPError")
       THEN sent([status |-> "error", action |-> "web_request",
                  reason |-> [msg |-> "HTTP error"], violator |-> url],
                 <<"validate_url">> \o vu.trace \o <<"http_request">>)
       ELSE IF http.exc # "none"
       THEN sent([raised |-> http.exc], <<"validate_url">> \o vu.trace \o <<"http_request">>)
       ELSE WithLog(sent([status |-> "success", action |-> "web_request", url |-> vu.url,
                          method |-> m, status_code |-> http.status_code,
                          content_len |-> IF http.text_len < _MAX_RESPONSE_BODY
                                          THEN http.text_len ELSE _MAX_RESPONSE_BODY,
                          content_bytes |-> http.char_bytes *
                                            (IF http.text_len < _MAX_RESPONSE_BODY
                                             THEN http.text_len ELSE _MAX_RESPONSE_BODY)],
                         <<"validate_url">> \o vu.trace \o <<"http_request">>),
                    log_info("web_request"))

\* Mutant: the URL is validated before the method is looked at
safe_web_request_url_first(url, method, dns, http, fs_files, fs_dirs) ==
    LET m == str_upper(method)
        vu == validate_url(url, [given |-> FALSE, domains |-> {}], dns)
    IN IF vu.exc # "none"
       THEN web_validated(url, m, dns, http, fs_files, fs_dirs)
       ELSE IF m \notin { <<"G","E","T">>, <<"H","E","A","D">> }
       THEN Outcome([status |-> "blocked", action |-> "web_request",
                     reason |-> [msg |-> "HTTP method not allowed", method |-> m],
                     violator |-> m],
                    fs_files, fs_dirs, <<"validate_url">> \o vu.trace, {})
       ELSE web_validated(url, m, dns, http, fs_files, fs_dirs)

\* safe_web_request; dns is the resolver's answer inside validate_url(url),
\* http what the HTTP client does: [exc, status_code, text_len, char_bytes];
\* the content is the first content_len characters of response.text
safe_web_request(url, method, dns, http, fs_files, fs_dirs) ==
    LET m == str_upper(method)
    IN IF m \notin { <<"G","E","T">>, <<"H","E","A","D">> }
       THEN Outcome([status |-> "blocked", action |-> "web_request",
                     reason |-> [msg |-> "HTTP method not allowed", method |-> m],
                     violator |-> m],
                    fs_files, fs_dirs, <<>>, {})
       ELSE web_validated(url, m, dns, http, fs_files, fs_dirs)

(* ---------------------------------------------------------------------- *)
(* Inputs                                                                   *)
(* ---------------------------------------------------------------------- *)
SeqsUpTo(S, n) == UNION { [1..k -> S] : k \in 0..n }

WorkspaceRoot == << <<"w">> >>

PathComponents == { DotDot, <<"a">>, <<"n", "<">>, EncodedDotDot }

\* relative paths, absolute paths, absolute paths below the workspace root,
\* and paths that start with a tilde
PathInputs ==
    [abs : BOOLEAN, parts : SeqsUpTo(PathComponents, MaxPathLen)]
        \cup { [abs |-> TRUE, parts |-> WorkspaceRoot \o p] :
                   p \in SeqsUpTo(PathComponents, MaxPathLen - 1) }
        \cup { [abs |-> FALSE, parts |-> <<Tilde>> \o p] :
                   p \in SeqsUpTo(PathComponents, MaxPathLen - 1) }

NoPath == [abs |-> FALSE, parts |-> <<>>]

\* params.get("path"): absent, None, another type, or a str
PathParams ==
    { [t |-> k, v |-> NoPath] : k \in {"missing", "none", "int"} }
    \cup { [t |-> "str", v |-> p] : p \in PathInputs }

\* params.get("content"); v is str(content)
ContentParams ==
    { [t |-> "missing", v |-> <<>>], [t |-> "none", v |-> <<>>],
      [t |-> "int", v |-> <<"5">>],
      [t |-> "str", v |-> <<>>], [t |-> "str", v |-> <<"h", "E">>],
      [t |-> "str", v |-> <<"SUR">>] }

Words == { <<"l","s">>, <<"c","a","t">>, <<"c","u","r","l">>, <<"-","l">>,
           <<";","r","m">>, <<"a","|","b">>, <<"&","&">>, <<"$","x">>, <<"BQ","w","BQ">> }

CommandElements == { [str |-> TRUE, v |-> w] : w \in Words } \cup { [str |-> FALSE, v |-> <<"1">>] }

\* params.get("command_parts")
CommandParams ==
    { [t |-> k, v |-> <<>>] : k \in {"missing", "none", "str"} }
    \cup { [t |-> "list", v |-> c] : c \in SeqsUpTo(CommandElements, MaxArgs) }

AddrInputs ==
    { [v |-> 4, o |-> <<8, 8, 8, 8>>], [v |-> 4, o |-> <<10, 0, 0, 1>>],
      [v |-> 4, o |-> <<127, 0, 0, 1>>], [v |-> 4, o |-> <<172, 31, 0, 1>>],
      [v |-> 4, o |-> <<192, 168, 1, 1>>], [v |-> 6, o |-> <<0, 0, 0, 0, 0, 0, 0, 1>>] }

DigitChars == <<"0", "1", "2", "3", "4", "5", "6", "7", "8", "9">>

RECURSIVE Decimal(_)
Decimal(n) ==
    IF n < 10 THEN <<DigitChars[n + 1]>>
    ELSE Decimal(n \div 10) \o <<DigitChars[(n % 10) + 1]>>

\* The text of an address as it stands in a URL: dotted decimal; of the IPv6
\* addresses only ::1 is among the inputs
AddrText(a) ==
    IF a.v = 4
    THEN Decimal(a.o[1]) \o <<".">> \o Decimal(a.o[2]) \o <<".">>
            \o Decimal(a.o[3]) \o <<".">> \o Decimal(a.o[4])
    ELSE <<":", ":", "1">>

HostInputs ==
    { NoHost, [kind |-> "name", addr |-> NoAddr, name |-> <<"e","x">>],
      [kind |-> "name", addr |-> NoAddr, name |-> <<"I","n">>] }
    \cup { [kind |-> "ip", addr |-> a, name |-> AddrText(a)] : a \in AddrInputs }

SchemeInputs == { <<>>, <<"h","t","t","p">>, <<"H","T","T","P","S">>, <<"f","t","p">>,
                  <<"f","i","l","e">> }

UrlInputs == [scheme : SchemeInputs, host : HostInputs, rest : {TRUE}]

EmptyUrl == [scheme |-> <<>>, host |-> NoHost, rest |-> FALSE]

\* params.get("url")
UrlParams ==
    { [t |-> k, v |-> EmptyUrl] : k \in {"missing", "none", "int"} }
    \cup { [t |-> "str", v |-> u] : u \in UrlInputs }

MethodInputs == { <<"G","E","T">>, <<"g","e","t">>, <<"H","e","a","d">>,
                  <<"P","O","S","T">>, <<"p","o","s","t">>, <<"D","E","L","E","T","E">> }

\* params.get("method", "GET"), then str(method)
MethodParams ==
    { [t |-> "missing", v |-> <<"G","E","T">>], [t |-> "none", v |-> <<"N","o","n","e">>] }
    \cup { [t |-> "str", v |-> m] : m \in MethodInputs }

\* socket.getaddrinfo: a resolver error, or the records of the answer
DnsOutcomes ==
    { [exc |-> "gaierror", infos |-> <<>>] }
    \cup { [exc |-> "none", infos |-> r] : r \in SeqsUpTo(AddrInputs \cup {NoAddr}, MaxRecords) }

\* The redirect targets a server may answer with: a loopback address, or a
\* public address that redirects to a private one
RedirectChains ==
    LET to(a) == [scheme |-> <<"h","t","t","p">>,
                  host |-> [kind |-> "ip", addr |-> a, name |-> AddrText(a)],
                  rest |-> TRUE]
    IN { << to([v |-> 4, o |-> <<127, 0, 0, 1>>]) >>,
         << to([v |-> 4, o |-> <<8, 8, 8, 8>>]), to([v |-> 4, o |-> <<10, 0, 0, 1>>]) >> }

\* httpx.Client.request: a response, a timeout, another transport failure.
\* response.text is a text of text_len characters, each of them char_bytes
\* bytes long in UTF-8.
HttpOutcomes ==
    { [exc |-> "none", status_code |-> 200, text_len |-> n, char_bytes |-> w,
       redirects |-> <<>>] :
          n \in {12, 60000}, w \in {1, 2} }
    \cup { [exc |-> "none", status_code |-> 200, text_len |-> 12, char_bytes |-> 1,
            redirects |-> r] : r \in RedirectChains }
    \cup { [exc |-> e, status_code |-> 0, text_len |-> 0, char_bytes |-> 1,
            redirects |-> <<>>] :
              e \in {"TimeoutException", "HTTPError"} }

\* The primitives a call does not reach have no outcome to choose
NoDns == [exc |-> "none", infos |-> <<>>]
NoHttp == [exc |-> "none", status_code |-> 0, text_len |-> 0, char_bytes |-> 1,
           redirects |-> <<>>]

DnsFor(url) == IF url.host.kind = "name" THEN DnsOutcomes ELSE {NoDns}
HttpFor(vu) == IF vu.exc = "none" THEN HttpOutcomes ELSE {NoHttp}

AllowedDomainsInputs ==
    { [given |-> FALSE, domains |-> {}],
      [given |-> TRUE, domains |-> { <<"E","x"," ">> }],
      [given |-> TRUE, domains |-> { <<"i","n">>, <<"e","x">>,
                                     AddrText([v |-> 4, o |-> <<10, 0, 0, 1>>]),
                                     AddrText([v |-> 4, o |-> <<8, 8, 8, 8>>]) }] }

ActionInputs == _VALID_ACTIONS \cup {"search_in_file", "read_file_paged", "hack_the_planet"}

(* ---------------------------------------------------------------------- *)
(* Construction                                                             *)
(* ---------------------------------------------------------------------- *)
\* BasalGuardCore.__init__: the workspace exists afterwards; it may already
\* hold a file.  One file lies outside the workspace.
Init ==
    /\ workspace_root = WorkspaceRoot
    /\ command_allowlist \in { DEFAULT_COMMAND_ALLOWLIST, { <<"c","a","t">> } }
    /\ dirs = Prefixes(WorkspaceRoot)
    /\ \E inside \in { <<>> } \cup
                      { [content |-> <<"b">>, size |-> n] :
                            n \in {_MAX_READ_SIZE_BYTES, _MAX_READ_SIZE_BYTES + 1} } :
          files = [q \in { << <<"a">> >> } \cup
                         (IF inside = <<>> THEN {} ELSE { Append(WorkspaceRoot, <<"a">>) }) |->
                     IF q = << <<"a">> >> THEN [content |-> <<"s">>, size |-> 1] ELSE inside]
    /\ call = [op |-> "idle"]
    /\ result = [idle |-> TRUE]
    /\ trace = <<>>
    /\ touched = {}
    /\ nwrites = 0
    /\ invoked = <<>>
    /\ log = <<>>
    /\ pc = "idle"

(* ---------------------------------------------------------------------- *)
(* The intent router and the calls made on the guards directly              *)
(* ---------------------------------------------------------------------- *)
\* Mutant: the firewall narrows its allowlist to the command it has run
Return_narrowing(c, out) ==
    /\ pc' = "returned"
    /\ call' = c
    /\ result' = out.result
    /\ files' = out.files
    /\ dirs' = out.dirs
    /\ trace' = out.trace
    /\ touched' = out.touched
    /\ invoked' = Invoked(out)
    /\ log' = Logged(out)
    /\ IF out.files # files \/ out.dirs # dirs
       THEN nwrites < MaxWrites /\ nwrites' = nwrites + 1
       ELSE nwrites' = nwrites
    /\ command_allowlist' = IF "command" \in DOMAIN out.result
                            THEN { out.result.command[1].v }
                            ELSE command_allowlist
    /\ UNCHANGED workspace_root

Return(c, out) ==
    /\ pc' = "returned"
    /\ call' = c
    /\ result' = out.result
    /\ files' = out.files
    /\ dirs' = out.dirs
    /\ trace' = out.trace
    /\ touched' = out.touched
    /\ invoked' = Invoked(out)
    /\ log' = Logged(out)
    /\ IF out.files # files \/ out.dirs # dirs
       THEN nwrites < MaxWrites /\ nwrites' = nwrites + 1
       ELSE nwrites' = nwrites
    /\ UNCHANGED <<workspace_root, command_allowlist>>

RouterError(reason) ==
    Outcome([status |-> "error", reason |-> reason], files, dirs, <<>>, {})

\* validate_intent, action outside _VALID_ACTIONS
ValidateIntentUnknown ==
    /\ pc = "idle"
    /\ \E action \in ActionInputs, path \in PathParams :
        /\ action \notin _VALID_ACTIONS
        /\ Return([op |-> "validate_intent", action |-> action, params |-> [path |-> path]],
                  RouterError([msg |-> "Unknown action", action |-> action,
                               valid |-> _VALID_ACTIONS]))

\* validate_intent("write_file", params)
ValidateIntentWriteFile ==
    /\ pc = "idle"
    /\ \E action \in ActionInputs, path \in PathParams, content \in ContentParams :
        /\ action \in _VALID_ACTIONS
        /\ action = "write_file"
        /\ LET c == [op |-> "validate_intent", action |-> action,
                     params |-> [path |-> path, content |-> content]]
           IN IF path.t # "str" \/ content.t \in {"missing", "none"}
              THEN Return(c, RouterError([msg |-> "write_file requires path and content"]))
              ELSE \E out \in safe_write_file(path.v, content.v, workspace_root, files, dirs) :
                      Return(c, out)

\* validate_intent("read_file", params)
ValidateIntentReadFile ==
    /\ pc = "idle"
    /\ \E action \in ActionInputs, path \in PathParams :
        /\ action \in _VALID_ACTIONS
        /\ action # "write_file"
        /\ action = "read_file"
        /\ LET c == [op |-> "validate_intent", action |-> action, params |-> [path |-> path]]
           IN IF path.t # "str"
              THEN Return(c, RouterError([msg |-> "read_file requires path"]))
              ELSE Return(c, safe_read_file(path.v, workspace_root, files, dirs))

\* validate_intent("execute_command", params)
ValidateIntentExecuteCommand ==
    /\ pc = "idle"
    /\ \E action \in ActionInputs, command_parts \in CommandParams :
        /\ action \in _VALID_ACTIONS
        /\ action \notin {"write_file", "read_file"}
        /\ action = "execute_command"
        /\ LET c == [op |-> "validate_intent", action |-> action,
                     params |-> [command_parts |-> command_parts]]
           IN IF command_parts.t # "list" \/ command_parts.v = <<>>
              THEN Return(c, RouterError([msg |-> "execute_command requires command_parts"]))
              ELSE \E out \in safe_execute_command(command_parts.v, command_allowlist,
                                                    workspace_root, files, dirs) :
                      Return(c, out)

\* validate_intent("web_request", params): the branch every remaining valid
\* action falls into
ValidateIntentWebRequest ==
    /\ pc = "idle"
    /\ \E action \in ActionInputs, url \in UrlParams, method \in MethodParams :
        /\ action \in _VALID_ACTIONS
        /\ action \notin {"write_file", "read_file", "execute_command"}
        /\ LET c == [op |-> "validate_intent", action |-> action,
                     dns |-> NoDns, http |-> NoHttp,
                     params |-> [url |-> url, method |-> method]]
           IN IF url.t # "str" \/ url.v = EmptyUrl
              THEN Return(c, RouterError([msg |-> "web_request requires url"]))
              ELSE \E dns \in DnsFor(url.v) :
                      LET vu == validate_url(url.v, [given |-> FALSE, domains |-> {}], dns)
                      IN \E http \in HttpFor(vu) :
                            Return([c EXCEPT !.dns = dns, !.http = http],
                                   safe_web_request(url.v, method.v, dns, http, files, dirs))

\* BasalGuardCore.safe_web_request(url, method) called directly
SafeWebRequest ==
    /\ pc = "idle"
    /\ \E url \in UrlInputs \cup {EmptyUrl}, method \in MethodInputs :
        \E dns \in DnsFor(url) :
            LET vu == validate_url(url, [given |-> FALSE, domains |-> {}], dns)
            IN \E http \in HttpFor(vu) :
                  Return([op |-> "safe_web_request", url |-> url, method |-> method,
                          dns |-> dns, http |-> http],
                         safe_web_request(url, method, dns, http, files, dirs))

\* validate_url(url, allowed_domains=...) called directly
ValidateUrl ==
    /\ pc = "idle"
    /\ \E url \in UrlInputs \cup {EmptyUrl}, allowed_domains \in AllowedDomainsInputs :
      \E dns \in DnsFor(url) :
        LET vu == validate_url(url, allowed_domains, dns)
        IN Return([op |-> "validate_url", url |-> url, allowed_domains |-> allowed_domains,
                   dns |-> dns],
                  Outcome(IF vu.exc = "none" THEN [returned |-> vu.url]
                          ELSE [raised |-> vu.exc, guard |-> vu.guard, cause |-> vu.cause,
                                value |-> vu.value],
                          files, dirs, vu.trace, {}))

\* The caller reads back, through the router, the path that its write_file
\* intent has just written with success
ReadBackWritten ==
    /\ pc = "returned"
    /\ call.op = "validate_intent"
    /\ call.action = "write_file"
    /\ "status" \in DOMAIN result
    /\ result.status = "success"
    /\ LET out == safe_read_file(call.params.path.v, workspace_root, files, dirs)
       IN /\ pc' = "read_back"
          /\ call' = [op |-> "write_then_read", path |-> call.params.path.v,
                      content |-> call.params.content.v, written |-> result]
          /\ result' = out.result
          /\ trace' = out.trace
          /\ touched' = out.touched
          /\ invoked' = Invoked(out)
          /\ log' = Logged(out)
          /\ UNCHANGED <<workspace_root, command_allowlist, files, dirs, nwrites>>

\* read_file_paged(path, offset, limit, base_dir=workspace_root) called
\* directly
ReadFilePaged ==
    /\ pc = "idle"
    /\ \E path \in PathInputs, offset \in -1..MaxOffset, limit \in -1..MaxOffset :
          Return([op |-> "read_file_paged", path |-> path, offset |-> offset,
                  limit |-> limit],
                 read_file_paged(path, offset, limit, workspace_root, files, dirs))

\* The caller that has read the first k bytes of a file reads the rest of
\* it: read_file_paged(path, k, len - k) after read_file_paged(path, 0, k)
ReadFilePagedRest ==
    /\ pc = "returned"
    /\ call.op = "read_file_paged"
    /\ call.offset = 0
    /\ call.limit >= 0
    /\ "returned" \in DOMAIN result
    /\ LET size == Len(Utf8Encode(
                        files[guard_path_traversal(call.path, workspace_root).resolved].content))
           out == read_file_paged(call.path, call.limit, size - call.limit,
                                  workspace_root, files, dirs)
       IN /\ call.limit <= size
          /\ files[guard_path_traversal(call.path, workspace_root).resolved].size = size
          /\ pc' = "paged_rest"
          /\ call' = [op |-> "read_file_paged_rest", path |-> call.path, k |-> call.limit,
                      size |-> size, first |-> result]
          /\ result' = out.result
          /\ trace' = out.trace
          /\ touched' = out.touched
          /\ invoked' = Invoked(out)
          /\ log' = Logged(out)
          /\ UNCHANGED <<workspace_root, command_allowlist, files, dirs, nwrites>>

\* The caller takes the result and goes on to its next intent
NextIntent ==
    /\ pc \in {"returned", "read_back", "paged_rest"}
    /\ pc' = "idle"
    /\ call' = [op |-> "idle"]
    /\ result' = [idle |-> TRUE]
    /\ trace' = <<>>
    /\ touched' = {}
    /\ invoked' = <<>>
    /\ log' = <<>>
    /\ UNCHANGED <<workspace_root, command_allowlist, files, dirs, nwrites>>

\* Every call through the router
Next ==
    \/ ValidateIntentUnknown
    \/ ValidateIntentWriteFile
    \/ ValidateIntentReadFile
    \/ ValidateIntentExecuteCommand
    \/ ValidateIntentWebRequest
    \/ NextIntent

Spec == Init /\ [][Next]_vars

\* The file guard
NextFiles ==
    \/ ValidateIntentWriteFile
    \/ ValidateIntentReadFile
    \/ ReadBackWritten
    \/ NextIntent

\* a firewall constructed without allowed_commands
InitFiles == Init /\ command_allowlist = DEFAULT_COMMAND_ALLOWLIST

SpecFiles == InitFiles /\ [][NextFiles]_vars

\* The command guard
NextCommands ==
    \/ ValidateIntentExecuteCommand
    \/ NextIntent

SpecCommands == Init /\ [][NextCommands]_vars

\* The first bytes of a file larger than the cap of read_file
LargeFileHead == <<"h", "E", "y", "h", "E", "y", "h", "E", "y">>

\* The files a page is read from: a text with a two-byte character, one that
\* begins or ends with it, an empty file, and a file one byte above the cap
\* of read_file, of which content is the head
PagedFiles ==
    { [content |-> text, size |-> Utf8Len(text)] :
          text \in { <<"h", "E", "y">>, <<"E", "h">>, <<"h", "E">>, <<>> } }
    \cup { [content |-> LargeFileHead, size |-> _MAX_READ_SIZE_BYTES + 1] }

\* The paged read, over a workspace that holds one of these files
InitPaged ==
    /\ workspace_root = WorkspaceRoot
    /\ command_allowlist = DEFAULT_COMMAND_ALLOWLIST
    /\ dirs = Prefixes(WorkspaceRoot)
    /\ \E f \in PagedFiles :
          files = [q \in { << <<"a">> >>, Append(WorkspaceRoot, <<"a">>) } |->
                     IF q = << <<"a">> >> THEN [content |-> <<"s">>, size |-> 1]
                     ELSE f]
    /\ call = [op |-> "idle"]
    /\ result = [idle |-> TRUE]
    /\ trace = <<>>
    /\ touched = {}
    /\ nwrites = 0
    /\ invoked = <<>>
    /\ log = <<>>
    /\ pc = "idle"

NextPaged ==
    \/ ReadFilePaged
    \/ ReadFilePagedRest
    \/ NextIntent

SpecPaged == InitPaged /\ [][NextPaged]_vars

\* The texts searched: a line in which a capital sigma ends a word, lines
\* that differ in case, an empty line, a last line without terminator
SearchTexts ==
    { <<"a", "GS", "NL", "b">>,
      <<"A", "b", "NL", "a", "B", "NL">>,
      <<"b", "NL", "NL", "a">>,
      <<"GS", "a", "NL">>,
      <<>> }

PatternInputs == { <<"GS">>, <<"a", "b">>, <<"B">>, <<"a">>, <<>> }

InitSearch ==
    /\ workspace_root = WorkspaceRoot
    /\ command_allowlist = DEFAULT_COMMAND_ALLOWLIST
    /\ dirs = Prefixes(WorkspaceRoot)
    /\ \E text \in SearchTexts :
          files = [q \in { << <<"a">> >>, Append(WorkspaceRoot, <<"a">>) } |->
                     IF q = << <<"a">> >> THEN [content |-> <<"s">>, size |-> 1]
                     ELSE [content |-> text, size |-> Utf8Len(text)]]
    /\ call = [op |-> "idle"]
    /\ result = [idle |-> TRUE]
    /\ trace = <<>>
    /\ touched = {}
    /\ nwrites = 0
    /\ invoked = <<>>
    /\ log = <<>>
    /\ pc = "idle"

\* search_in_file(path, pattern, case_sensitive, base_dir=workspace_root)
\* called directly
SearchInFile ==
    /\ pc = "idle"
    /\ \E path \in PathInputs, pattern \in PatternInputs, case_sensitive \in BOOLEAN :
          Return([op |-> "search_in_file", path |-> path, pattern |-> pattern,
                  case_sensitive |-> case_sensitive],
                 search_in_file(path, pattern, case_sensitive, workspace_root, files, dirs))

NextSearch ==
    \/ SearchInFile
    \/ NextIntent

SpecSearch == InitSearch /\ [][NextSearch]_vars

\* Calls that use the fields of the firewall, one after the other: the
\* workspace root in the file guard, the workspace root and the allowlist in
\* the command guard
NextFirewall ==
    \/ ValidateIntentReadFile
    \/ ValidateIntentExecuteCommand
    \/ NextIntent

SpecFirewall == Init /\ [][NextFirewall]_vars

\* The network guard
NextNetwork ==
    \/ ValidateIntentWebRequest
    \/ SafeWebRequest
    \/ ValidateUrl
    \/ NextIntent

SpecNetwork == Init /\ [][NextNetwork]_vars

(* ---------------------------------------------------------------------- *)
(* Construction                                                             *)
(* ---------------------------------------------------------------------- *)
\* BasalGuardCore(workspace_root, command_allowlist=...): the fields of the
\* new firewall and the directories it leaves, or the exception raised
construct(root, allowlist, fs_files, fs_dirs) ==
    LET resolved == resolve(<<>>, root)
        md == mkdir_parents(fs_files, fs_dirs, resolved)
    IN IF md.exc # "none"
       THEN [raised |-> md.exc]
       ELSE [workspace_root |-> resolved,
             command_allowlist |-> IF allowlist.given THEN allowlist.v
                                   ELSE DEFAULT_COMMAND_ALLOWLIST,
             dirs |-> md.dirs]

(* ---------------------------------------------------------------------- *)
(* The tool executor (llm_interface/executor.py)                            *)
(* ---------------------------------------------------------------------- *)
\* validate_intent as a function of the intent: every outcome the call can
\* have.  params gives each parameter as [t, v]; dns and http are what the
\* resolver and the HTTP client do when they are reached.
validate_intent(action, params, dns, http, allowlist, root, fs_files, fs_dirs) ==
    LET error(reason) ==
            { Outcome([status |-> "error", reason |-> reason], fs_files, fs_dirs, <<>>, {}) }
    IN IF action \notin _VALID_ACTIONS
       THEN error([msg |-> "Unknown action", action |-> action, valid |-> _VALID_ACTIONS])
       ELSE IF action = "write_file"
       THEN IF params.path.t # "str" \/ params.content.t \in {"missing", "none"}
            THEN error([msg |-> "write_file requires path and content"])
            ELSE safe_write_file(params.path.v, params.content.v, root, fs_files, fs_dirs)
       ELSE IF action = "read_file"
       THEN IF params.path.t # "str"
            THEN error([msg |-> "read_file requires path"])
            ELSE { safe_read_file(params.path.v, root, fs_files, fs_dirs) }
       ELSE IF action = "execute_command"
       THEN IF params.command_parts.t # "list" \/ params.command_parts.v = <<>>
            THEN error([msg |-> "execute_command requires command_parts"])
            ELSE safe_execute_command(params.command_parts.v, allowlist, root,
                                      fs_files, fs_dirs)
       ELSE IF params.url.t # "str" \/ params.url.v = EmptyUrl
            THEN error([msg |-> "web_request requires url"])
            ELSE { safe_web_request(params.url.v, params.method.v, dns, http,
                                    fs_files, fs_dirs) }

\* The tools advertised to the model: the names of BASALGUARD_TOOLS
BASALGUARD_TOOLS ==
    {"write_file", "read_file", "run_command", "web_request", "search_in_file",
     "read_file_paged"}

\* _TOOL_TO_ACTION.get(tool_name); "None" when the name is not a key
TOOL_TO_ACTION(tool_name) ==
    CASE tool_name = "write_file"  -> "write_file"
      [] tool_name = "read_file"   -> "read_file"
      [] tool_name = "run_command" -> "execute_command"
      [] OTHER                     -> "None"

\* An intent without any parameter
NoParams ==
    [path |-> [t |-> "missing", v |-> NoPath],
     content |-> [t |-> "missing", v |-> <<>>],
     command_parts |-> [t |-> "missing", v |-> <<>>],
     url |-> [t |-> "missing", v |-> EmptyUrl],
     method |-> [t |-> "missing", v |-> <<"G","E","T">>]]

\* The arguments of a tool call: a mapping, or what json.loads gives for
\* another JSON text: an empty list, a list of scalars, a number, null
ArgumentInputs(tool_name) ==
    { [kind |-> k, params |-> NoParams] : k \in {"empty_list", "list", "int", "none"} }
    \cup
    (CASE tool_name = "write_file" ->
              { [kind |-> "dict", params |-> [NoParams EXCEPT !.path = p, !.content = c]] :
                    p \in PathParams, c \in ContentParams }
       [] tool_name = "run_command" ->
              { [kind |-> "dict", params |-> [NoParams EXCEPT !.command_parts = c]] :
                    c \in CommandParams }
       [] OTHER ->
              { [kind |-> "dict", params |-> [NoParams EXCEPT !.path = p]] :
                    p \in PathParams })

\* _translate_params: dict(arguments)
translate_params(action, arguments) ==
    IF arguments.kind \in {"dict", "empty_list"}
    THEN [exc |-> "none", params |-> arguments.params]
    ELSE [exc |-> "TypeError", params |-> NoParams]

\* _to_json: json.dumps(result, ensure_ascii=False, default=str)
to_json(res) == [json |-> res]

\* execute_tool_call: every outcome the call can have
execute_tool_call(tool_name, arguments, allowlist, root, fs_files, fs_dirs) ==
    LET action == TOOL_TO_ACTION(tool_name)
        translated == translate_params(action, arguments)
        through(out) ==
            IF "raised" \in DOMAIN out.result
            THEN [out EXCEPT !.trace = <<"validate_intent">> \o out.trace]
            ELSE [out EXCEPT !.result = to_json(out.result),
                             !.trace = <<"validate_intent">> \o out.trace]
    IN IF action = "None"
       THEN { Outcome(to_json([status |-> "error",
                               reason |-> [msg |-> "Unknown tool", tool |-> tool_name]]),
                      fs_files, fs_dirs, <<>>, {}) }
       ELSE IF translated.exc # "none"
       THEN { Outcome([raised |-> translated.exc], fs_files, fs_dirs, <<>>, {}) }
       ELSE { through(out) :
                out \in validate_intent(action, translated.params, NoDns, NoHttp,
                                        allowlist, root, fs_files, fs_dirs) }

ToolInputs == BASALGUARD_TOOLS \cup {"delete_everything"}

\* ToolExecutor.execute_tool_call(tool_name, arguments)
ExecuteToolCall ==
    /\ pc = "idle"
    /\ \E tool_name \in ToolInputs :
         \E arguments \in ArgumentInputs(tool_name) :
            \E out \in execute_tool_call(tool_name, arguments, command_allowlist,
                                         workspace_root, files, dirs) :
                Return([op |-> "execute_tool_call", tool_name |-> tool_name,
                        arguments |-> arguments], out)

NextExecutor ==
    \/ ExecuteToolCall
    \/ NextIntent

SpecExecutor == InitFiles /\ [][NextExecutor]_vars

(* ---------------------------------------------------------------------- *)
(* Properties                                                               *)
(* ---------------------------------------------------------------------- *)
Range(f) == { f[i] : i \in DOMAIN f }

Returned == pc = "returned"

IsIntent(action) == Returned /\ call.op = "validate_intent" /\ call.action = action

HasStatus(st) == "status" \in DOMAIN result /\ result.status = st

\* The path would leave the workspace through a ".." component
Escapes(path) ==
    /\ \E i \in 1..Len(path.parts) : path.parts[i] = DotDot
    /\ ~IsPrefix(workspace_root,
                 resolve(IF path.abs THEN <<>> ELSE workspace_root, path.parts))

OutsideAtConstruction == [q \in { << <<"a">> >> } |-> [content |-> <<"s">>, size |-> 1]]

\* A web request that reached safe_web_request, its URL and its method
IsWebRequest ==
    /\ Returned
    /\ \/ call.op = "safe_web_request"
       \/ /\ call.op = "validate_intent"
          /\ call.action = "web_request"
          /\ call.params.url.t = "str"
          /\ call.params.url.v # EmptyUrl

WebUrl == IF call.op = "safe_web_request" THEN call.url ELSE call.params.url.v

WebMethod == IF call.op = "safe_web_request" THEN call.method ELSE call.params.method.v

\* The five address ranges of the resolution property, written out
InNamedPrivateRange(a) ==
    \/ a.v = 4 /\ a.o[1] = 127
    \/ a.v = 4 /\ a.o[1] = 10
    \/ a.v = 4 /\ a.o[1] = 172 /\ a.o[2] \in 16..31
    \/ a.v = 4 /\ a.o[1] = 192 /\ a.o[2] = 168
    \/ a.v = 6 /\ a.o = <<0, 0, 0, 0, 0, 0, 0, 1>>

\* C1: every validate_intent call returns a result whose status is one of
\* success, blocked, error; no exception reaches the caller.
C1_StatusTaxonomy ==
    (Returned /\ call.op = "validate_intent")
        => ("status" \in DOMAIN result
            /\ result.status \in {"success", "blocked", "error"})

\* C2: every file that write_file creates or modifies and every file whose
\* content read_file returns lies at or below workspace_root, and so does the
\* path of every successful file result; nothing outside the workspace is
\* created or changed.
C2_WorkspaceConfinement ==
    /\ \A p \in touched : IsPrefix(workspace_root, p)
    /\ (HasStatus("success") /\ result.action \in {"write_file", "read_file"})
           => IsPrefix(workspace_root, result.path)
    /\ \A p \in DOMAIN files :
           ~IsPrefix(workspace_root, p)
               => (p \in DOMAIN OutsideAtConstruction /\ files[p] = OutsideAtConstruction[p])
    /\ \A d \in dirs : IsPrefix(workspace_root, d) \/ IsPrefix(d, workspace_root)

\* C2 witness: a write succeeded under a file name that sanitisation rewrote
C2_Witness ==
    /\ IsIntent("write_file")
    /\ HasStatus("success")
    /\ result.path[Len(result.path)] # PathName(call.params.path.v)
    /\ result.path \in DOMAIN files
    /\ result.path \in touched

\* C3: a path with a traversal sequence that resolves outside the workspace
\* is answered blocked, with a traversal reason, by write, read, paged read
\* and pattern search alike.
C3_TraversalBlockedByAllFour ==
    (/\ Returned
     /\ call.op = "validate_intent"
     /\ call.action \in {"write_file", "read_file", "read_file_paged", "search_in_file"}
     /\ call.params.path.t = "str"
     /\ Escapes(call.params.path.v)
     /\ (call.action = "write_file" => call.params.content.t \notin {"missing", "none"}))
        => (HasStatus("blocked") /\ result.reason.msg = "path_traversal")

\* A well-formed execute_command intent: a non-empty list of strings
IsCommandCall ==
    /\ IsIntent("execute_command")
    /\ call.params.command_parts.t = "list"
    /\ call.params.command_parts.v # <<>>
    /\ \A i \in 1..Len(call.params.command_parts.v) : call.params.command_parts.v[i].str

CommandParts == call.params.command_parts.v

\* C4: an argument list with one of ; | & $ or a backquote in any element, at
\* any position, is answered blocked and no process is launched.
C4_InjectionBlocked ==
    (/\ IsCommandCall
     /\ \E i \in 1..Len(CommandParts) :
            \E k \in 1..Len(CommandParts[i].v) :
                CommandParts[i].v[k] \in {";", "|", "&", "$", "BQ"})
        => (HasStatus("blocked") /\ "run_safe_command" \notin Range(trace))

\* C4 witness: the metacharacter is in the last argument of an allowlisted
\* command
C4_Witness ==
    /\ IsCommandCall
    /\ Len(CommandParts) = 2
    /\ CommandParts[1].v \in command_allowlist
    /\ CommandParts[2].v = <<";", "r", "m">>
    /\ HasStatus("blocked")

\* C5: a base command outside the configured allowlist is answered blocked
\* and no process is launched; when the arguments are free of injection
\* characters the violator is that command.
C5_AllowlistEnforced ==
    (IsCommandCall /\ CommandParts[1].v \notin command_allowlist)
        => /\ HasStatus("blocked")
           /\ "run_safe_command" \notin Range(trace)
           /\ (\A i \in 1..Len(CommandParts) : ~HasMetachar(CommandParts[i].v))
                  => result.violator = CommandParts[1].v

\* C5 witness: a custom allowlist has replaced the default one, and a command
\* of the default set is refused with clean arguments
C5_Witness ==
    /\ IsCommandCall
    /\ command_allowlist # DEFAULT_COMMAND_ALLOWLIST
    /\ CommandParts = << [str |-> TRUE, v |-> <<"l", "s">>], [str |-> TRUE, v |-> <<"-", "l">>] >>
    /\ HasStatus("blocked")
    /\ result.violator = <<"l", "s">>

\* C6: a URL whose host is a literal private, loopback or reserved address is
\* answered blocked, the violator contains the address, and no HTTP request
\* is sent.
C6_PrivateLiteralBlocked ==
    (/\ IsWebRequest
     /\ str_upper(WebMethod) \in { <<"G","E","T">>, <<"H","E","A","D">> }
     /\ str_lower(WebUrl.scheme) \in { <<"h","t","t","p">>, <<"h","t","t","p","s">> }
     /\ WebUrl.host.kind = "ip"
     /\ IsBlockedAddr(WebUrl.host.addr))
        => /\ HasStatus("blocked")
           /\ result.violator.host.addr = WebUrl.host.addr
           /\ "http_request" \notin Range(trace)

\* C7: validate_url rejects a hostname when any record of its DNS answer, at
\* any position, is in 127/8, 10/8, 172.16/12, 192.168/16 or is ::1, also
\* when other records are public.
C7_AnyPrivateRecordRejected ==
    (/\ Returned
     /\ call.op = "validate_url"
     /\ call.url.host.kind = "name"
     /\ call.dns.exc = "none"
     /\ \E i \in 1..Len(call.dns.infos) : InNamedPrivateRange(call.dns.infos[i]))
        => ("raised" \in DOMAIN result /\ result.raised = "SecurityError")

\* C7 witness: a public record comes first, the private one after it
C7_Witness ==
    /\ Returned
    /\ call.op = "validate_url"
    /\ call.url.host.kind = "name"
    /\ Len(call.dns.infos) >= 2
    /\ call.dns.infos[1] = [v |-> 4, o |-> <<8, 8, 8, 8>>]
    /\ InNamedPrivateRange(call.dns.infos[Len(call.dns.infos)])
    /\ "raised" \in DOMAIN result
    /\ result.cause = "dns_private"

\* C8: validate_url rejects every URL whose parsed scheme is not http or
\* https, and does so on the scheme, before the hostname, allowlist, IP and
\* DNS checks: no address is parsed and no DNS lookup is made.
C8_SchemeCheckedFirst ==
    (/\ Returned
     /\ call.op = "validate_url"
     /\ str_lower(call.url.scheme) \notin { <<"h","t","t","p">>, <<"h","t","t","p","s">> })
        => /\ "raised" \in DOMAIN result
           /\ result.raised = "SecurityError"
           /\ result.cause = "scheme"
           /\ trace = <<"urlparse">>

\* C8 witness: an ftp URL whose host is outside the supplied allowlist and
\* whose DNS answer would be private
C8_Witness ==
    /\ Returned
    /\ call.op = "validate_url"
    /\ call.url.scheme = <<"f", "t", "p">>
    /\ call.url.host.kind = "name"
    /\ call.allowed_domains.given
    /\ str_lower(call.url.host.name) = <<"i", "n">>
    /\ <<"i", "n">> \notin call.allowed_domains.domains
    /\ call.dns.infos = << [v |-> 4, o |-> <<10, 0, 0, 1>>] >>
    /\ "raised" \in DOMAIN result
    /\ result.cause = "scheme"

\* C9: a web request whose method is not GET or HEAD, compared without
\* regard to case, is answered blocked with the (upper-cased) method as
\* violator whatever the URL, before URL validation: no DNS lookup and no
\* HTTP request is made.
C9_MethodCheckedFirst ==
    (/\ IsWebRequest
     /\ str_lower(WebMethod) \notin { <<"g","e","t">>, <<"h","e","a","d">> })
        => /\ HasStatus("blocked")
           /\ str_lower(result.violator) = str_lower(WebMethod)
           /\ result.violator = str_upper(result.violator)
           /\ trace = <<>>

\* C9 witness: a lower-case post to a literal private address
C9_Witness ==
    /\ IsWebRequest
    /\ WebMethod = <<"p", "o", "s", "t">>
    /\ WebUrl.host.kind = "ip"
    /\ IsBlockedAddr(WebUrl.host.addr)
    /\ HasStatus("blocked")
    /\ result.violator = <<"P", "O", "S", "T">>

\* A request the router must turn away as malformed
IsMalformed ==
    /\ Returned
    /\ call.op = "validate_intent"
    /\ \/ call.action \notin {"write_file", "read_file", "execute_command", "web_request",
                              "read_file_paged", "search_in_file"}
       \/ /\ call.action = "write_file"
          /\ (call.params.path.t # "str" \/ call.params.content.t \in {"missing", "none"})
       \/ call.action = "read_file" /\ call.params.path.t # "str"
       \/ /\ call.action = "execute_command"
          /\ \/ call.params.command_parts.t # "list"
             \/ call.params.command_parts.v = <<>>
             \/ \E i \in 1..Len(call.params.command_parts.v) :
                    ~call.params.command_parts.v[i].str
       \/ /\ call.action = "web_request"
          /\ (call.params.url.t # "str" \/ call.params.url.v = EmptyUrl)

\* C10: a structurally malformed request is answered error, never blocked,
\* invokes no guard and has no side effect; for an unknown action the reason
\* lists the valid actions.
C10_MalformedIsError ==
    IsMalformed
        => /\ HasStatus("error")
           /\ trace = <<>>
           /\ touched = {}
           /\ (call.action \notin _VALID_ACTIONS => result.reason.valid = _VALID_ACTIONS)

\* The path argument names a regular file of the workspace
NamesWorkspaceFile(path) ==
    /\ guard_path_traversal(path, workspace_root).exc = "none"
    /\ guard_path_traversal(path, workspace_root).resolved \in DOMAIN files

\* C11: search_in_file and read_file_paged on an existing workspace file are
\* routed like the other four actions: the result is success, with the
\* matching lines under matches, or the requested bytes under content; neither
\* is answered as an unknown action.
C11_RouterAcceptsSixActions ==
    (/\ Returned
     /\ call.op = "validate_intent"
     /\ call.action \in {"search_in_file", "read_file_paged"}
     /\ call.params.path.t = "str"
     /\ NamesWorkspaceFile(call.params.path.v))
        => /\ HasStatus("success")
           /\ call.action = "search_in_file" => "matches" \in DOMAIN result
           /\ call.action = "read_file_paged" => "content" \in DOMAIN result


\* C12: when write_file(p, c) has returned success, p having a file name,
\* the read_file(p) that follows it at once returns success with content
\* equal to c.
C12_WriteReadRoundTrip ==
    (pc = "read_back" /\ PathName(call.path) # <<>>)
        => /\ HasStatus("success")
           /\ result.content = call.content


\* The number of bytes of the UTF-8 encoding of a text
EncodedBytes(c) == Len(c) + Cardinality({ i \in 1..Len(c) : c[i] = "E" })

HasUnsafeChar(name) == \E i \in 1..Len(name) : name[i] \in {"<", ">", ":", "|", "?", "*"}

\* C13: after a write_file that returned success every parent directory of
\* the returned path exists, the file at that path holds exactly the given
\* content, and bytes_written is the byte length of the content's UTF-8
\* encoding; a file name with unsafe characters is rewritten, never the cause
\* of a refusal.
C13_WriteSuccessDetails ==
    /\ (IsIntent("write_file") /\ HasStatus("success"))
          => /\ \A n \in 0..(Len(result.path) - 1) : SubSeq(result.path, 1, n) \in dirs
             /\ result.path \in DOMAIN files
             /\ files[result.path].content = call.params.content.v
             /\ files[result.path].size = EncodedBytes(call.params.content.v)
             /\ result.bytes_written = EncodedBytes(call.params.content.v)
             /\ HasUnsafeChar(PathName(call.params.path.v))
                    => ~HasUnsafeChar(result.path[Len(result.path)])
    /\ (/\ IsIntent("write_file")
        /\ call.params.path.t = "str"
        /\ HasUnsafeChar(PathName(call.params.path.v))
        /\ HasStatus("blocked"))
          => result.reason.msg # "sanitize_filename"

\* C13 witness: a write below a directory that did not exist, of a content
\* with a two-byte character, under a file name that had to be rewritten
C13_Witness ==
    /\ IsIntent("write_file")
    /\ HasStatus("success")
    /\ Len(result.path) = Len(workspace_root) + 2
    /\ nwrites = 1
    /\ SubSeq(result.path, 1, Len(result.path) - 1) \in dirs
    /\ HasUnsafeChar(PathName(call.params.path.v))
    /\ result.bytes_written = 3
    /\ Len(call.params.content.v) = 2


ParentIsRegularFile(path) ==
    LET r == resolve(IF path.abs THEN <<>> ELSE workspace_root, path.parts)
    IN \E n \in 0..(Len(r) - 1) : SubSeq(r, 1, n) \in DOMAIN files

\* C15: an operational failure of the operating system inside a guard is
\* answered error, never blocked: a write whose directories cannot be created
\* or whose target cannot be written, and a command whose process cannot be
\* launched.
C15_OsFailureIsError ==
    /\ (/\ IsIntent("write_file")
        /\ call.params.path.t = "str"
        /\ call.params.content.t \notin {"missing", "none"}
        /\ "mkdir" \in Range(trace)
        /\ ParentIsRegularFile(call.params.path.v))
          => HasStatus("error")
    /\ (/\ Returned
        /\ call.op = "validate_intent"
        /\ "reason" \in DOMAIN result
        /\ "msg" \in DOMAIN result.reason
        /\ result.reason.msg = "OSError")
          => HasStatus("error")


\* C16: when the HTTP request or the executed command outlives its timeout,
\* validate_intent returns a result of status error; it neither raises nor
\* answers blocked.
C16_TimeoutIsError ==
    (/\ Returned
     /\ call.op = "validate_intent"
     /\ "timeout" \in Range(trace))
        => HasStatus("error")


\* The byte offset k falls between the two bytes of a character of text c
SplitsCharacter(c, k) ==
    /\ k >= 1
    /\ k < Len(Utf8Encode(c))
    /\ Utf8Encode(c)[k] = "E:1"
    /\ Utf8Encode(c)[k + 1] = "E:2"

\* Text c with the character that byte offset k falls into replaced by one
\* marker for each of its two halves
RECURSIVE MarkedAt(_, _)
MarkedAt(c, k) ==
    IF c = <<>> THEN <<>>
    ELSE IF Head(c) = "E" /\ k = 1 THEN <<"R", "R">> \o Tail(c)
    ELSE <<Head(c)>> \o MarkedAt(Tail(c), k - (IF Head(c) = "E" THEN 2 ELSE 1))

\* C17: for a file of content C and every byte offset k from 0 to the byte
\* length of C, the page (0, k) followed by the page (k, length - k) is C,
\* with replacement markers in place of a character that k splits; neither
\* read raises.
C17_PagedReadComposition ==
    /\ (/\ Returned
        /\ call.op = "read_file_paged"
        /\ NamesWorkspaceFile(call.path))
          => "returned" \in DOMAIN result
    /\ pc = "paged_rest"
          => LET C == files[guard_path_traversal(call.path, workspace_root).resolved].content
             IN /\ "returned" \in DOMAIN call.first
                /\ "returned" \in DOMAIN result
                /\ call.first.returned \o result.returned
                      = IF SplitsCharacter(C, call.k) THEN MarkedAt(C, call.k) ELSE C

\* C17 witness: the split falls inside the two-byte character, and each page
\* carries a marker for its half
C17_Witness ==
    /\ pc = "paged_rest"
    /\ call.k = 2
    /\ call.size = 4
    /\ call.first.returned = <<"h", "R">>
    /\ result.returned = <<"R", "y">>


\* The resolver failed, or answered without any record
DnsFailed(dns) == dns.exc # "none" \/ dns.infos = <<>>

\* C18: a DNS failure is a refusal: validate_url raises the security
\* violation with the hostname as offending value, and the web request built
\* on it is answered blocked, not error.
C18_DnsFailureIsBlocked ==
    /\ (/\ Returned
        /\ call.op = "validate_url"
        /\ "raised" \in DOMAIN result
        /\ result.cause \in {"dns_error", "dns_empty"})
          => /\ result.raised = "SecurityError"
             /\ result.value = urlparse(call.url).hostname
    /\ (/\ Returned
        /\ call.op = "validate_url"
        /\ str_lower(call.url.scheme) \in { <<"h","t","t","p">>, <<"h","t","t","p","s">> }
        /\ call.url.host.kind = "name"
        /\ ~call.allowed_domains.given
        /\ DnsFailed(call.dns))
          => ("raised" \in DOMAIN result /\ result.cause \in {"dns_error", "dns_empty"})
    /\ (/\ IsWebRequest
        /\ str_upper(WebMethod) \in { <<"G","E","T">>, <<"H","E","A","D">> }
        /\ str_lower(WebUrl.scheme) \in { <<"h","t","t","p">>, <<"h","t","t","p","s">> }
        /\ WebUrl.host.kind = "name"
        /\ DnsFailed(call.dns))
          => HasStatus("blocked")


\* validate_url was called with an allowlist and returned the URL
AcceptedUnderAllowlist ==
    /\ Returned
    /\ call.op = "validate_url"
    /\ call.allowed_domains.given
    /\ "returned" \in DOMAIN result

\* The hostname is not, and does not resolve to, a private, loopback or
\* reserved address
PassesAddressChecks(host, dns) ==
    IF host.kind = "ip" THEN ~IsBlockedAddr(host.addr)
    ELSE /\ dns.exc = "none"
         /\ dns.infos # <<>>
         /\ \A i \in 1..Len(dns.infos) :
                dns.infos[i].v # 0 => ~IsBlockedAddr(dns.infos[i])

\* C19 as stated: with an allowlist, validate_url accepts a URL only if its
\* hostname equals, without regard to case, a member of the list and the
\* hostname passes the address checks.
C19_AllowlistExactMember ==
    AcceptedUnderAllowlist
        => /\ \E d \in call.allowed_domains.domains :
                  str_lower(d) = str_lower(call.url.host.name)
           /\ PassesAddressChecks(call.url.host, call.dns)

\* C19 as amended: with an allowlist, validate_url accepts a URL only if its
\* hostname equals, without regard to case, a member of the list taken
\* without its leading and trailing blanks, and the hostname passes the
\* address checks; membership exempts no host from them.
C19_AllowlistNeverExempts ==
    AcceptedUnderAllowlist
        => /\ \E d \in call.allowed_domains.domains :
                  str_strip(str_lower(d)) = str_lower(call.url.host.name)
           /\ PassesAddressChecks(call.url.host, call.dns)

\* C19 witness: a literal private address that is on the allowlist is
\* refused on its address
C19_Witness ==
    /\ Returned
    /\ call.op = "validate_url"
    /\ call.allowed_domains.given
    /\ call.url.host.kind = "ip"
    /\ call.url.host.name \in call.allowed_domains.domains
    /\ IsBlockedAddr(call.url.host.addr)
    /\ "raised" \in DOMAIN result
    /\ result.cause = "ip"


\* C20: the content of a successful web request is a prefix of the body the
\* server returned and is at most 50 KiB, 51,200 bytes, long, whatever the
\* size of that body.
C20_ContentAtMost50KiB ==
    (IsWebRequest /\ HasStatus("success"))
        => /\ result.content_len <= call.http.text_len
           /\ result.content_bytes <= 51200


\* C21: execute_tool_call never raises: for every tool name and every
\* arguments value, a mapping or not, it returns the JSON text of a result
\* that has a status; an unknown tool name gives status error without any
\* call to the firewall.
C21_ExecutorNeverRaises ==
    (Returned /\ call.op = "execute_tool_call")
        => /\ "json" \in DOMAIN result
           /\ "status" \in DOMAIN result.json
           /\ call.tool_name \notin {"write_file", "read_file", "run_command"}
                 => (result.json.status = "error" /\ trace = <<>>)


\* C30: every tool advertised in BASALGUARD_TOOLS is dispatched to a
\* firewall action that validate_intent accepts: a call of an advertised
\* tool with a mapping as arguments is never answered with Unknown tool or
\* Unknown action.
C30_AdvertisedToolsDispatched ==
    (Returned /\ call.op = "execute_tool_call"
       /\ call.tool_name \in BASALGUARD_TOOLS
       /\ call.arguments.kind = "dict"
       /\ "json" \in DOMAIN result
       /\ result.json.status = "error")
        => result.json.reason.msg \notin {"Unknown tool", "Unknown action"}


\* The larger and the smaller of two integers
Max2(a, b) == IF a > b THEN a ELSE b

Min2(a, b) == IF a < b THEN a ELSE b

\* The file a paged read names
PagedFile == files[guard_path_traversal(call.path, workspace_root).resolved]

\* The bytes of the named file from the clamped offset up to the clamped
\* offset plus the clamped limit, or up to the end of the file
RequestedBytes ==
    LET bytes == Utf8Encode(PagedFile.content)
        off == Max2(call.offset, 0)
        lim == Max2(call.limit, 0)
        n == Max2(Min2(off + lim, Len(bytes)) - off, 0)
    IN [i \in 1..n |-> bytes[off + i]]

\* The page lies in the part of the file whose bytes are known
PageIsKnown ==
    \/ PagedFile.size = Len(Utf8Encode(PagedFile.content))
    \/ Max2(call.offset, 0) + Max2(call.limit, 0) <= Len(Utf8Encode(PagedFile.content))

\* C22: read_file_paged on a workspace file takes a negative offset and a
\* negative limit as 0 instead of raising, and returns the decoding of
\* exactly the bytes from offset up to offset + limit: the rest of the file
\* when fewer are left, the empty text when limit is 0 or offset is at or past
\* the end, whatever the size of the file.
C22_PagedReadExactBytes ==
    (/\ Returned
     /\ call.op = "read_file_paged"
     /\ NamesWorkspaceFile(call.path))
       => /\ "returned" \in DOMAIN result
          /\ PageIsKnown => result.returned = Utf8Text(RequestedBytes)
          /\ call.limit <= 0 => result.returned = <<>>
          /\ (call.offset >= PagedFile.size) => result.returned = <<>>
          /\ (/\ PagedFile.size = Len(Utf8Encode(PagedFile.content))
              /\ call.offset >= 0
              /\ call.offset <= PagedFile.size
              /\ call.offset + call.limit >= PagedFile.size)
                => result.returned
                      = Utf8Text(SubSeq(Utf8Encode(PagedFile.content),
                                        call.offset + 1, PagedFile.size))

\* C22 witness: a page of the file above the cap of read_file, asked with a
\* negative offset, is the first bytes of the file
C22_Witness ==
    /\ Returned
    /\ call.op = "read_file_paged"
    /\ NamesWorkspaceFile(call.path)
    /\ PagedFile.size > _MAX_READ_SIZE_BYTES
    /\ call.offset = -1
    /\ call.limit = 3
    /\ result.returned = <<"h", "E">>


\* Two characters are the same letter, whatever their case
SameLetter(x, y) ==
    \/ x = y
    \/ LowerChar(x) = LowerChar(y)
    \/ {x, y} \subseteq {"GS", "gs", "fs"}

\* The line holds the pattern as a literal substring, compared with or
\* without regard to case
HoldsPattern(line, pattern, case_sensitive) ==
    \E i \in 0..(Len(line) - Len(pattern)) :
        \A j \in 1..Len(pattern) :
            IF case_sensitive THEN line[i + j] = pattern[j]
            ELSE SameLetter(line[i + j], pattern[j])

\* The lines of a text, without their terminators
RECURSIVE LinesOf(_)
LinesOf(text) ==
    IF text = <<>> THEN <<>>
    ELSE IF \A i \in 1..Len(text) : text[i] # "NL" THEN <<text>>
    ELSE LET k == CHOOSE i \in 1..Len(text) :
                     text[i] = "NL" /\ \A j \in 1..(i - 1) : text[j] # "NL"
         IN <<SubSeq(text, 1, k - 1)>> \o LinesOf(SubSeq(text, k + 1, Len(text)))

\* C23: search_in_file on a workspace file returns exactly the lines that
\* hold the pattern as a literal substring, compared without regard to case
\* unless case_sensitive is true, in file order and without their line
\* terminator; a target that is not a regular file is refused.
C23_SearchReturnsMatchingLines ==
    (Returned /\ call.op = "search_in_file"
       /\ guard_path_traversal(call.path, workspace_root).exc = "none")
       => IF NamesWorkspaceFile(call.path)
          THEN LET text == files[guard_path_traversal(call.path, workspace_root).resolved].content
                   wanted(line) == HoldsPattern(line, call.pattern, call.case_sensitive)
               IN /\ "returned" \in DOMAIN result
                  /\ result.returned = SelectSeq(LinesOf(text), wanted)
          ELSE "raised" \in DOMAIN result


\* The number of entries of a sequence that are equal to x
Count(seq, x) == Cardinality({ i \in 1..Len(seq) : seq[i] = x })

\* C24: in every execute_command call the process is run at most once, and
\* only after the injection and allowlist guard has returned without a
\* violation for the same argument list; it is run with the list unmodified
\* and without a shell, in the workspace root, with the same allowlist and a
\* timeout of 60 seconds; a call that is blocked or fails is not retried.
C24_RunOnceAfterGuard ==
    IsCommandCall
        => /\ Len(invoked) <= 1
           /\ Count(trace, "run_safe_command") = Len(invoked)
           /\ Count(trace, "guard_command_injection") <= 1
           /\ invoked # <<>>
                 => /\ trace[1] = "guard_command_injection"
                    /\ trace[2] = "run_safe_command"
                    /\ CommandParts[1].v \in command_allowlist
                    /\ \A i \in 1..Len(CommandParts) : ~HasMetachar(CommandParts[i].v)
                    /\ invoked[1].argv = CommandParts
                    /\ invoked[1].shell = FALSE
                    /\ invoked[1].cwd = workspace_root
                    /\ invoked[1].allowed_commands = command_allowlist
                    /\ invoked[1].timeout = 60

\* C24 witness: a command of a custom allowlist has been run once with its
\* argument, and the run failed
C24_Witness ==
    /\ IsCommandCall
    /\ command_allowlist # DEFAULT_COMMAND_ALLOWLIST
    /\ Len(CommandParts) = 2
    /\ Len(invoked) = 1
    /\ invoked[1].argv = CommandParts
    /\ HasStatus("blocked")


\* The parameters of an intent, those it does not give being missing
FullParams(p) == [k \in DOMAIN NoParams |-> IF k \in DOMAIN p THEN p[k] ELSE NoParams[k]]

LoggedAs(status) == IF status = "blocked" THEN "BLOCKED" ELSE status

\* C26: every validate_intent call that returns a result, whatever its
\* status, has emitted at least one log record that names the action and the
\* outcome, and the violator when the outcome is blocked.
C26_EveryDecisionLogged ==
    (Returned /\ call.op = "validate_intent" /\ "status" \in DOMAIN result)
        => \E i \in 1..Len(log) :
              /\ log[i].action = call.action
              /\ log[i].outcome = LoggedAs(result.status)
              /\ result.status = "blocked" => "value" \in DOMAIN log[i]


\* The URL may be requested: validate_url accepts it.  The redirect targets
\* of the model name their host by a literal address, so the resolver is not
\* asked.
PassesValidateUrl(url) ==
    validate_url(url, [given |-> FALSE, domains |-> {}], NoDns).exc = "none"

\* C27: every URL to which safe_web_request sends a request has passed
\* validate_url beforehand, the initial one and each redirect target the
\* client follows: no request goes to a private, loopback or reserved address
\* reached through a redirect.
C27_EveryRequestValidated ==
    (Returned /\ IsWebRequest)
        => \A i \in 1..Len(invoked) :
              /\ Count(trace, "validate_url") >= i
              /\ i > 1 => /\ PassesValidateUrl(invoked[i].url)
                          /\ ~IsBlockedAddr(invoked[i].url.host.addr)


\* C28: validate_url returns the URL of a hostname only if every record of
\* the DNS answer was parsed as an address and found public; an answer with a
\* record that cannot be parsed, or with none that can, is not accepted.
C28_EveryRecordClassified ==
    (/\ Returned
     /\ call.op = "validate_url"
     /\ call.url.host.kind = "name"
     /\ "returned" \in DOMAIN result)
        => /\ result.returned = call.url
           /\ call.dns.exc = "none"
           /\ call.dns.infos # <<>>
           /\ \A i \in 1..Len(call.dns.infos) :
                 /\ call.dns.infos[i] # NoAddr
                 /\ ~IsBlockedAddr(call.dns.infos[i])


\* C29: a write_file call for a named file that does not return success
\* leaves the filesystem as it was: no directory has been created, no file
\* created, emptied or changed.
C29_FailedWriteChangesNothing ==
    [][(/\ pc = "idle"
        /\ pc' = "returned"
        /\ call'.op = "validate_intent"
        /\ call'.action = "write_file"
        /\ call'.params.path.t = "str"
        /\ PathName(call'.params.path.v) # <<>>
        /\ ~("status" \in DOMAIN result' /\ result'.status = "success"))
          => (files' = files /\ dirs' = dirs)]_vars


====
